---- MODULE Spec2Model ----
(***************************************************************************)
(* scripts/lint.py: a script that runs `cargo dylint` and `cargo clippy`   *)
(* one after the other, captures their output and prints the two captured  *)
(* standard-output texts as one blob.                                      *)
(*                                                                         *)
(* Texts (stream contents, environment values, paths) are sequences of     *)
(* one-character strings.  Command-line arguments are strings.             *)
(* The streams of a tool are the decoded text subprocess.run hands back    *)
(* (capture_output=True, text=True).                                       *)
(*                                                                         *)
(* The platform (what tempfile.gettempdir() resolves to, whether the       *)
(* executable "cargo" can be found) is chosen in Init and is not changed   *)
(* by the script; the inherited environment is chosen anew for every run   *)
(* of the script.                                                          *)
(***************************************************************************)
EXTENDS Integers, Sequences, FiniteSets, TLC

VARIABLES
    tempdir,          \* platform: result of tempfile.gettempdir(), NoTmp when it raises
    cargoFound,       \* platform: the executable "cargo" can be found
    run,              \* number of the current run of the script
    prev,             \* <<>> or <<summary of the previous run>>
    inherited,        \* the environment the interpreter was started with
    environ,          \* os.environ
    env,              \* the script's variable env
    pc,               \* position in the script
    dylint_proc,      \* child process of line 18
    clippy_proc,      \* child process of line 21
    dylint_output,    \* the script's variable dylint_output
    clippy_output,    \* the script's variable clippy_output
    combined_output,  \* the script's variable combined_output
    out,              \* what the script has written to its standard output
    status,           \* exit status of the script, Running while it runs
    failedAt          \* line of the uncaught exception, 0 when none

vars == <<tempdir, cargoFound, run, prev, inherited, environ, env, pc,
          dylint_proc, clippy_proc, dylint_output, clippy_output,
          combined_output, out, status, failedAt>>

----------------------------------------------------------------------------
(* Bounds *)

MaxLen == 2       \* longest standard-output text of a tool
MaxRuns == 2      \* runs of the script in succession

----------------------------------------------------------------------------
(* Texts *)

\* Every character carries the stream it was written to: dylint writes "a"
\* to its standard output, clippy writes "b", both write "e" to standard error.
DylintChars == {"a"}
ClippyChars == {"b"}
ErrChars == {"e"}
NL == "\n"

TextsOver(chars, n) == UNION {[1..k -> chars] : k \in 0..n}

DylintTexts == TextsOver(DylintChars, MaxLen)
ClippyTexts == TextsOver(ClippyChars, MaxLen)
ErrTexts == {<<>>, <<"e">>}

SEP == "/"
DYLINT == <<"d", "y", "l", "i", "n", "t">>
CARGO_TARGET_DIR == "CARGO_TARGET_DIR"

NoTmp == <<>>
TempDirs == {<<"/">>, <<"/", "t">>}

\* os.path.join(a, b) for a relative b
join(a, b) ==
    IF a = <<>> \/ a[Len(a)] = SEP THEN a \o b ELSE a \o <<SEP>> \o b

----------------------------------------------------------------------------
(* Environments: functions from the names present to their values *)

EmptyEnv == [k \in {} |-> <<>>]

Put(d, k, v) == [x \in (DOMAIN d) \cup {k} |-> IF x = k THEN v ELSE d[x]]

BaseEnv == Put(EmptyEnv, "PATH", <<"/", "b">>)
Environs == {BaseEnv, Put(BaseEnv, CARGO_TARGET_DIR, <<"/", "c">>)}

----------------------------------------------------------------------------
(* Commands *)

dylint_command ==
    << "cargo",
       "dylint",
       "--all",
       "--",
       "--no-default-features" \o "--all-targets",
       "--message-format=json" >>

clippy_command ==
    << "cargo", "clippy", "--all-targets", "--message-format=json",
       "--no-default-features" >>

----------------------------------------------------------------------------
(* Child processes and captured results *)

\* returncode is meaningful once state is "exited"
NoProc == [state |-> "none", args |-> <<>>, env |-> EmptyEnv, returncode |-> 0]

Unbound == [bound |-> FALSE, stdout |-> <<>>, stderr |-> <<>>, returncode |-> 0]

ReturnCodes == {0, 1}

CompletedProcess(o, e, rc) ==
    [bound |-> TRUE, stdout |-> o, stderr |-> e, returncode |-> rc]

Running == -1

Summary ==
    [environ |-> inherited, dylint_output |-> dylint_output,
     clippy_output |-> clippy_output, out |-> out, status |-> status,
     dylint_proc |-> dylint_proc, clippy_proc |-> clippy_proc]

----------------------------------------------------------------------------
Init ==
    /\ tempdir \in TempDirs \cup {NoTmp}
    /\ cargoFound \in BOOLEAN
    /\ run = 1
    /\ prev = <<>>
    /\ inherited \in Environs
    /\ environ = inherited
    /\ env = EmptyEnv
    /\ pc = "l6"
    /\ dylint_proc = NoProc
    /\ clippy_proc = NoProc
    /\ dylint_output = Unbound
    /\ clippy_output = Unbound
    /\ combined_output = <<>>
    /\ out = <<>>
    /\ status = Running
    /\ failedAt = 0

\* an uncaught exception at the given line: traceback on stderr, exit status 1
Raise(line) ==
    /\ pc' = "failed"
    /\ status' = 1
    /\ failedAt' = line

\* line 6: env = os.environ.copy()
CopyEnviron ==
    /\ pc = "l6"
    /\ env' = environ
    /\ pc' = "l7"
    /\ UNCHANGED <<tempdir, cargoFound, run, prev, inherited, environ,
                   dylint_proc, clippy_proc, dylint_output, clippy_output,
                   combined_output, out, status, failedAt>>

platform == <<tempdir, cargoFound>>

\* a plausible slip: the override is written straight into os.environ
SetTargetDir_OnEnviron ==
    /\ pc = "l7"
    /\ IF tempdir = NoTmp
         THEN /\ Raise(7)
              /\ UNCHANGED <<env, environ>>
         ELSE /\ env' = Put(env, CARGO_TARGET_DIR, join(tempdir, DYLINT))
              /\ environ' = Put(environ, CARGO_TARGET_DIR, join(tempdir, DYLINT))
              /\ pc' = "l18"
              /\ UNCHANGED <<status, failedAt>>
    /\ UNCHANGED <<platform, run, prev, inherited, dylint_proc, clippy_proc,
                   dylint_output, clippy_output, combined_output, out>>

\* a plausible slip: an unresolvable temporary directory falls back to "."
SetTargetDir_Fallback ==
    /\ pc = "l7"
    /\ env' = Put(env, CARGO_TARGET_DIR,
                  join(IF tempdir = NoTmp THEN <<".">> ELSE tempdir, DYLINT))
    /\ pc' = "l18"
    /\ UNCHANGED <<platform, run, prev, inherited, environ, dylint_proc,
                   clippy_proc, dylint_output, clippy_output, combined_output,
                   out, status, failedAt>>

\* a plausible slip: a fresh build directory for every run
SetTargetDir_PerRun ==
    /\ pc = "l7"
    /\ IF tempdir = NoTmp
         THEN /\ Raise(7)
              /\ UNCHANGED env
         ELSE /\ env' = Put(env, CARGO_TARGET_DIR,
                            join(tempdir, DYLINT \o <<ToString(run)>>))
              /\ pc' = "l18"
              /\ UNCHANGED <<status, failedAt>>
    /\ UNCHANGED <<platform, run, prev, inherited, environ, dylint_proc,
                   clippy_proc, dylint_output, clippy_output, combined_output,
                   out>>

\* line 7: env["CARGO_TARGET_DIR"] = os.path.join(tempfile.gettempdir(), "dylint")
\* tempfile.gettempdir() raises FileNotFoundError when no usable directory exists
SetTargetDir ==
    /\ pc = "l7"
    /\ IF tempdir = NoTmp
         THEN /\ Raise(7)
              /\ UNCHANGED env
         ELSE /\ env' = Put(env, CARGO_TARGET_DIR, join(tempdir, DYLINT))
              /\ pc' = "l18"
              /\ UNCHANGED <<status, failedAt>>
    /\ UNCHANGED <<platform, run, prev, inherited, environ, dylint_proc,
                   clippy_proc, dylint_output, clippy_output, combined_output,
                   out>>

\* a plausible slip: the child is started without waiting for it (Popen)
RunDylint_NoWait ==
    /\ pc = "l18"
    /\ IF cargoFound
         THEN /\ dylint_proc' = [state |-> "running", args |-> dylint_command,
                                 env |-> env, returncode |-> 0]
              /\ pc' = "l21"
              /\ UNCHANGED <<status, failedAt>>
         ELSE /\ Raise(18)
              /\ UNCHANGED dylint_proc
    /\ UNCHANGED <<platform, run, prev, inherited, environ, env, clippy_proc,
                   dylint_output, clippy_output, combined_output, out>>

\* line 18, start of subprocess.run(dylint_command, ..., env=env): the child is
\* spawned with the argument list and env; FileNotFoundError when the
\* executable is not found (no shell is involved)
RunDylint ==
    /\ pc = "l18"
    /\ IF cargoFound
         THEN /\ dylint_proc' = [state |-> "running", args |-> dylint_command,
                                 env |-> env, returncode |-> 0]
              /\ pc' = "wait18"
              /\ UNCHANGED <<status, failedAt>>
         ELSE /\ Raise(18)
              /\ UNCHANGED dylint_proc
    /\ UNCHANGED <<platform, run, prev, inherited, environ, env, clippy_proc,
                   dylint_output, clippy_output, combined_output, out>>

\* a plausible slip: check=True, a non-zero exit status raises CalledProcessError
DylintExits_Check ==
    /\ pc = "wait18"
    /\ \E o \in DylintTexts, e \in ErrTexts, rc \in ReturnCodes :
         /\ dylint_proc' = [dylint_proc EXCEPT !.state = "exited",
                                             !.returncode = rc]
         /\ IF rc # 0
              THEN /\ Raise(18)
                   /\ UNCHANGED dylint_output
              ELSE /\ dylint_output' = CompletedProcess(o, e, rc)
                   /\ pc' = "l21"
                   /\ UNCHANGED <<status, failedAt>>
    /\ UNCHANGED <<platform, run, prev, inherited, environ, env, clippy_proc,
                   clippy_output, combined_output, out>>

\* line 18, end of subprocess.run: the child terminates with some output and
\* some exit status, and the captured result is bound to dylint_output
DylintExits ==
    /\ pc = "wait18"
    /\ \E o \in DylintTexts, e \in ErrTexts, rc \in ReturnCodes :
         /\ dylint_proc' = [dylint_proc EXCEPT !.state = "exited",
                                             !.returncode = rc]
         /\ dylint_output' = CompletedProcess(o, e, rc)
    /\ pc' = "l21"
    /\ UNCHANGED <<platform, run, prev, inherited, environ, env, clippy_proc,
                   clippy_output, combined_output, out, status, failedAt>>

\* line 21, start of subprocess.run(clippy_command, ...): no env argument, the
\* child inherits os.environ
RunClippy ==
    /\ pc = "l21"
    /\ IF cargoFound
         THEN /\ clippy_proc' = [state |-> "running", args |-> clippy_command,
                                 env |-> environ, returncode |-> 0]
              /\ pc' = "wait21"
              /\ UNCHANGED <<status, failedAt>>
         ELSE /\ Raise(21)
              /\ UNCHANGED clippy_proc
    /\ UNCHANGED <<platform, run, prev, inherited, environ, env, dylint_proc,
                   dylint_output, clippy_output, combined_output, out>>

\* a plausible slip: check=True, a non-zero exit status raises CalledProcessError
ClippyExits_Check ==
    /\ pc = "wait21"
    /\ \E o \in ClippyTexts, e \in ErrTexts, rc \in ReturnCodes :
         /\ clippy_proc' = [clippy_proc EXCEPT !.state = "exited",
                                             !.returncode = rc]
         /\ IF rc # 0
              THEN /\ Raise(21)
                   /\ UNCHANGED clippy_output
              ELSE /\ clippy_output' = CompletedProcess(o, e, rc)
                   /\ pc' = "l23"
                   /\ UNCHANGED <<status, failedAt>>
    /\ UNCHANGED <<platform, run, prev, inherited, environ, env, dylint_proc,
                   dylint_output, combined_output, out>>

\* line 21, end of subprocess.run
ClippyExits ==
    /\ pc = "wait21"
    /\ \E o \in ClippyTexts, e \in ErrTexts, rc \in ReturnCodes :
         /\ clippy_proc' = [clippy_proc EXCEPT !.state = "exited",
                                             !.returncode = rc]
         /\ clippy_output' = CompletedProcess(o, e, rc)
    /\ pc' = "l23"
    /\ UNCHANGED <<platform, run, prev, inherited, environ, env, dylint_proc,
                   dylint_output, combined_output, out, status, failedAt>>

\* a plausible slip: a newline is put between the two texts
Concat_Separator ==
    /\ pc = "l23"
    /\ combined_output' = dylint_output.stdout \o <<NL>> \o clippy_output.stdout
    /\ pc' = "l25"
    /\ UNCHANGED <<platform, run, prev, inherited, environ, env, dylint_proc,
                   clippy_proc, dylint_output, clippy_output, out, status,
                   failedAt>>

\* a plausible slip: the error stream of dylint is reported too
Concat_WithStderr ==
    /\ pc = "l23"
    /\ combined_output' =
           dylint_output.stdout \o dylint_output.stderr \o clippy_output.stdout
    /\ pc' = "l25"
    /\ UNCHANGED <<platform, run, prev, inherited, environ, env, dylint_proc,
                   clippy_proc, dylint_output, clippy_output, out, status,
                   failedAt>>

\* line 23: combined_output = dylint_output.stdout + clippy_output.stdout
Concat ==
    /\ pc = "l23"
    /\ combined_output' = dylint_output.stdout \o clippy_output.stdout
    /\ pc' = "l25"
    /\ UNCHANGED <<platform, run, prev, inherited, environ, env, dylint_proc,
                   clippy_proc, dylint_output, clippy_output, out, status,
                   failedAt>>

\* a plausible slip: the script exits with the status of the tools
WriteCombined_ToolStatus ==
    /\ pc = "l25"
    /\ out' = out \o combined_output \o <<NL>>
    /\ pc' = "done"
    /\ status' = IF dylint_output.returncode # 0
                   THEN dylint_output.returncode
                   ELSE clippy_output.returncode
    /\ UNCHANGED <<platform, run, prev, inherited, environ, env, dylint_proc,
                   clippy_proc, dylint_output, clippy_output, combined_output,
                   failedAt>>

\* line 25: print(combined_output), the last statement: the text and one
\* newline go to standard output and the interpreter exits with status 0
WriteCombined ==
    /\ pc = "l25"
    /\ out' = out \o combined_output \o <<NL>>
    /\ pc' = "done"
    /\ status' = 0
    /\ UNCHANGED <<platform, run, prev, inherited, environ, env, dylint_proc,
                   clippy_proc, dylint_output, clippy_output, combined_output,
                   failedAt>>

\* the script is run again: a new interpreter process, nothing of the
\* previous one survives (prev only remembers what could be observed of it)
Rerun ==
    /\ pc \in {"done", "failed"}
    /\ run < MaxRuns
    /\ run' = run + 1
    /\ prev' = <<Summary>>
    /\ inherited' \in Environs
    /\ environ' = inherited'
    /\ env' = EmptyEnv
    /\ pc' = "l6"
    /\ dylint_proc' = NoProc
    /\ clippy_proc' = NoProc
    /\ dylint_output' = Unbound
    /\ clippy_output' = Unbound
    /\ combined_output' = <<>>
    /\ out' = <<>>
    /\ status' = Running
    /\ failedAt' = 0
    /\ UNCHANGED platform

\* the statements of the script, executed by the interpreter one after another
ScriptStep ==
    \/ CopyEnviron
    \/ SetTargetDir
    \/ RunDylint
    \/ RunClippy
    \/ Concat
    \/ WriteCombined

Next ==
    \/ CopyEnviron
    \/ SetTargetDir
    \/ RunDylint
    \/ DylintExits
    \/ RunClippy
    \/ ClippyExits
    \/ Concat
    \/ WriteCombined
    \/ Rerun

Spec == Init /\ [][Next]_vars

\* one run of the script
NextOnce ==
    \/ ScriptStep
    \/ DylintExits
    \/ ClippyExits

\* one run in which the interpreter executes the next statement and a
\* started tool terminates
FairSpec ==
    /\ Init
    /\ [][NextOnce]_vars
    /\ WF_vars(ScriptStep)
    /\ WF_vars(DylintExits)
    /\ WF_vars(ClippyExits)

----------------------------------------------------------------------------
(* Properties *)

Terminated == pc \in {"done", "failed"}

HasPrev == Len(prev) = 1

\* C1: what the script writes to standard output is exactly the captured
\* stdout of dylint, immediately followed by the captured stdout of clippy,
\* followed by one newline; before the final statement nothing is written.
C1_OutputIsConcatenation ==
    /\ pc = "done" =>
          out = dylint_output.stdout \o clippy_output.stdout \o <<NL>>
    /\ pc # "done" => out = <<>>

C1_Witness ==
    /\ pc = "done"
    /\ Len(dylint_output.stdout) = MaxLen
    /\ Len(clippy_output.stdout) = MaxLen
    /\ out = dylint_output.stdout \o clippy_output.stdout \o <<NL>>

\* C2: no character written to a tool's standard error reaches the script's
\* standard output, and two runs whose captured stdout texts agree write the
\* same text, whatever the tools wrote to standard error.
C2_StderrNeverPrinted ==
    /\ \A i \in 1..Len(out) : out[i] \notin ErrChars
    /\ (/\ HasPrev
        /\ pc = "done"
        /\ prev[1].status = 0
        /\ prev[1].dylint_output.stdout = dylint_output.stdout
        /\ prev[1].clippy_output.stdout = clippy_output.stdout)
       => out = prev[1].out

C2_Witness ==
    /\ HasPrev
    /\ pc = "done"
    /\ prev[1].status = 0
    /\ prev[1].dylint_output.stdout = dylint_output.stdout
    /\ prev[1].clippy_output.stdout = clippy_output.stdout
    /\ prev[1].dylint_output.stderr # dylint_output.stderr
    /\ prev[1].clippy_output.stderr # clippy_output.stderr
    /\ dylint_output.stderr # <<>>
    /\ out = prev[1].out

\* C3: once dylint has terminated, whatever its exit status, clippy is
\* eventually started and the script eventually prints (no early abort).
C3_NoEarlyAbort ==
    /\ \A rc \in ReturnCodes :
          (dylint_proc.state = "exited" /\ dylint_proc.returncode = rc)
             ~> (clippy_proc.state # "none")
    /\ \A rc \in ReturnCodes :
          (dylint_proc.state = "exited" /\ dylint_proc.returncode = rc)
             ~> (pc = "done" /\ out # <<>>)

C3_Witness ==
    /\ dylint_proc.state = "exited"
    /\ dylint_proc.returncode # 0
    /\ dylint_output.returncode # 0
    /\ clippy_proc.state = "exited"
    /\ pc = "done"
    /\ out # <<>>

\* C4 as stated: no failure of an external tool, the executable not being
\* found included, makes the script fail.
C4_ToolFailureNeverFails ==
    tempdir # NoTmp => pc # "failed"

\* C4 amended: a tool that was started never makes the script fail, whatever
\* its exit status and error text; when the executable cannot be found the
\* script fails at that invocation, the remaining steps are not run and
\* nothing is printed.
C4_OnlyMissingExecutableFails ==
    /\ dylint_proc.state # "none" => pc # "failed"
    /\ (pc = "failed" /\ failedAt \in {18, 21}) =>
          /\ ~cargoFound
          /\ status = 1
          /\ clippy_proc.state = "none"
          /\ out = <<>>
    /\ (~cargoFound /\ tempdir # NoTmp) => pc \in {"l6", "l7", "l18", "failed"}

C4_Witness ==
    /\ ~cargoFound
    /\ pc = "failed"
    /\ failedAt = 18
    /\ dylint_proc.state = "none"

\* C5: the two tools run one after the other in the order of the script:
\* clippy is not started before dylint has terminated and its result is
\* captured, never both run at once, and printing follows both.
C5_Sequential ==
    /\ ~(dylint_proc.state = "running" /\ clippy_proc.state = "running")
    /\ clippy_proc.state # "none" =>
          (dylint_proc.state = "exited" /\ dylint_output.bound)
    /\ out # <<>> =>
          /\ dylint_proc.state = "exited"
          /\ clippy_proc.state = "exited"
          /\ clippy_output.bound

C5_Witness ==
    /\ clippy_proc.state = "running"
    /\ dylint_proc.state = "exited"

\* C6: dylint gets the inherited environment with CARGO_TARGET_DIR set to
\* the temporary directory joined with "dylint"; clippy gets the inherited
\* environment as it is; os.environ stays what was inherited.
C6_OverrideForDylintOnly ==
    /\ environ = inherited
    /\ dylint_proc.state # "none" =>
          /\ DOMAIN dylint_proc.env = (DOMAIN inherited) \cup {CARGO_TARGET_DIR}
          /\ \A k \in (DOMAIN inherited) \ {CARGO_TARGET_DIR} :
                dylint_proc.env[k] = inherited[k]
          /\ dylint_proc.env[CARGO_TARGET_DIR] =
                IF tempdir[Len(tempdir)] = SEP
                  THEN tempdir \o DYLINT
                  ELSE tempdir \o <<SEP>> \o DYLINT
    /\ clippy_proc.state # "none" => clippy_proc.env = inherited

C6_Witness ==
    /\ clippy_proc.state # "none"
    /\ CARGO_TARGET_DIR \in DOMAIN inherited
    /\ dylint_proc.env[CARGO_TARGET_DIR] # inherited[CARGO_TARGET_DIR]
    /\ clippy_proc.env[CARGO_TARGET_DIR] = inherited[CARGO_TARGET_DIR]

\* C7: once both tools have completed the script ends with status 0, for
\* every combination of their exit statuses.
C7_ExitStatusIgnoresTools ==
    /\ pc = "done" => status = 0
    /\ (dylint_output.bound /\ clippy_output.bound) => status \in {Running, 0}

C7_Witness ==
    /\ pc = "done"
    /\ dylint_output.returncode # 0
    /\ clippy_output.returncode # 0
    /\ status = 0

\* C8: when the temporary directory cannot be resolved the script ends with
\* an error at line 7, before either tool is started and without printing.
C8_FailFastWithoutTempDir ==
    tempdir = NoTmp =>
        /\ pc \in {"l6", "l7", "failed"}
        /\ pc = "failed" => (status = 1 /\ failedAt = 7)
        /\ dylint_proc.state = "none"
        /\ clippy_proc.state = "none"
        /\ out = <<>>

C8_Witness ==
    /\ tempdir = NoTmp
    /\ pc = "failed"
    /\ failedAt = 7

\* C9: two runs in succession with the same inherited environment and the
\* same captured results write the same text and start the tools with the
\* same argument lists and environments.
C9_Deterministic ==
    (/\ HasPrev
     /\ Terminated
     /\ prev[1].environ = inherited
     /\ prev[1].dylint_output = dylint_output
     /\ prev[1].clippy_output = clippy_output)
    => /\ out = prev[1].out
       /\ status = prev[1].status
       /\ dylint_proc = prev[1].dylint_proc
       /\ clippy_proc = prev[1].clippy_proc

C9_Witness ==
    /\ HasPrev
    /\ pc = "done"
    /\ prev[1].environ = inherited
    /\ prev[1].dylint_output = dylint_output
    /\ prev[1].clippy_output = clippy_output
    /\ Len(out) > 1
    /\ out = prev[1].out

\* C10: dylint is started with seven arguments, "--no-default-features" and
\* "--all-targets" being two of them.
C10_SevenArguments ==
    dylint_proc.state # "none" =>
        dylint_proc.args =
            << "cargo", "dylint", "--all", "--", "--no-default-features",
               "--all-targets", "--message-format=json" >>

====
